---- MODULE Spec2Model ----
(***************************************************************************)
(* A model of the thynkai CLI (packages/cli/src/index.ts): the dispatcher  *)
(* main and its four handlers, run against a small local filesystem.       *)
(*                                                                         *)
(* Strings are sequences of tokens.  A token is a run of characters that   *)
(* the code never looks inside ("models", "1.0.0", ".json", "/").  Every   *)
(* string operation of the code (endsWith, startsWith, split, indexOf,     *)
(* replace with an anchored pattern, path.join) is the matching sequence   *)
(* operation on tokens.                                                    *)
(***************************************************************************)
EXTENDS Integers, Sequences, FiniteSets, TLC

VARIABLES
  fs,       \* the filesystem: path -> node (a directory or a regular file)
  listing,  \* the order in which the OS lists a directory ("asc" or "desc")
  last,     \* the observable result of the latest process invocation
  prev,     \* the registry command that ran right before a validation run
  edits     \* number of hand edits made to the tree so far

vars == <<fs, listing, last, prev, edits>>

(***************************************************************************)
(* Bounds of the model.                                                    *)
(***************************************************************************)
MaxEdits == 1

(***************************************************************************)
(* Strings.                                                                *)
(***************************************************************************)
S(tok) == <<tok>>

\* Tokens in UTF-16 code-unit order of their first character (the order
\* Array.prototype.sort uses by default), on the strings that occur here.
Alphabet ==
  << "\n", " ", "-", ".", "..", ".json", "/", "0.1.0", "1.0", "1.0.0",
     "1.1.0", "?", "M", "PERFORMANCE.md", "a", "bar", "foo", "model",
     "models", "multimodal", "nowhere", "org/demo", "rc", "text", "versions",
     "vision", "x", "~" >>

Rank(tok) == CHOOSE i \in 1..Len(Alphabet) : Alphabet[i] = tok

RECURSIVE StrLess(_, _)
StrLess(a, b) ==
  IF b = <<>> THEN FALSE
  ELSE IF a = <<>> THEN TRUE
  ELSE IF Head(a) = Head(b) THEN StrLess(Tail(a), Tail(b))
  ELSE Rank(Head(a)) < Rank(Head(b))

EndsWith(s, suf) ==
  /\ Len(s) >= Len(suf)
  /\ SubSeq(s, Len(s) - Len(suf) + 1, Len(s)) = suf

StartsWith(s, pre) ==
  /\ Len(s) >= Len(pre)
  /\ SubSeq(s, 1, Len(pre)) = pre

DropLast(s, n) == SubSeq(s, 1, Len(s) - n)

\* s.replace(/suf$/, by)
ReplaceSuffix(s, suf, by) ==
  IF EndsWith(s, suf) THEN DropLast(s, Len(suf)) \o by ELSE s

\* /versions[\\/]/.test(s)
HasVersionsSep(s) ==
  \E i \in 1..(Len(s) - 1) : s[i] = "versions" /\ s[i + 1] = "/"

\* String.prototype.trim: white space is the " " and "\n" tokens
White == {" ", "\n"}

RECURSIVE TrimLeft(_)
TrimLeft(s) ==
  IF s # <<>> /\ Head(s) \in White THEN TrimLeft(Tail(s)) ELSE s

RECURSIVE TrimRight(_)
TrimRight(s) ==
  IF s # <<>> /\ s[Len(s)] \in White THEN TrimRight(DropLast(s, 1)) ELSE s

Trim(s) == TrimRight(TrimLeft(s))

\* s.split("/"): the sequence of segments, each a string
RECURSIVE SplitFrom(_, _, _)
SplitFrom(s, cur, acc) ==
  IF s = <<>> THEN Append(acc, cur)
  ELSE IF Head(s) = "/" THEN SplitFrom(Tail(s), <<>>, Append(acc, cur))
  ELSE SplitFrom(Tail(s), Append(cur, Head(s)), acc)

Split(s) == SplitFrom(s, <<>>, <<>>)

RECURSIVE JoinSegs(_)
JoinSegs(segs) ==
  IF segs = <<>> THEN <<>>
  ELSE IF Len(segs) = 1 THEN segs[1]
  ELSE segs[1] \o <<"/">> \o JoinSegs(Tail(segs))

\* parts.indexOf(seg), 0-based, -1 when absent
IndexOf(parts, seg) ==
  IF \E i \in 1..Len(parts) : parts[i] = seg
  THEN (CHOOSE i \in 1..Len(parts) :
          parts[i] = seg /\ \A j \in 1..(i - 1) : parts[j] # seg) - 1
  ELSE -1

\* path.normalize on a relative POSIX path: "" and "." segments vanish, ".."
\* removes the segment before it, the empty result is "."
RECURSIVE NormSegs(_, _)
NormSegs(segs, acc) ==
  IF segs = <<>> THEN acc
  ELSE LET h == Head(segs) IN
       IF h = <<>> \/ h = <<".">> THEN NormSegs(Tail(segs), acc)
       ELSE IF h = <<"..">> /\ acc # <<>> /\ acc[Len(acc)] # <<"..">>
            THEN NormSegs(Tail(segs), DropLast(acc, 1))
       ELSE NormSegs(Tail(segs), Append(acc, h))

Normalize(p) ==
  LET segs == NormSegs(Split(p), <<>>)
  IN IF segs = <<>> THEN <<".">> ELSE JoinSegs(segs)

\* path.join(a, b)
join(a, b) == Normalize(a \o <<"/">> \o b)

\* path.dirname of a normalized relative path
dirname(p) ==
  LET segs == Split(p)
  IN IF Len(segs) <= 1 THEN <<".">> ELSE JoinSegs(DropLast(segs, 1))

basename(p) == LET segs == Split(p) IN segs[Len(segs)]

\* path.relative(from, to) for normalized relative paths
RECURSIVE RelSegs(_, _)
RelSegs(from, to) ==
  IF from # <<>> /\ to # <<>> /\ Head(from) = Head(to)
  THEN RelSegs(Tail(from), Tail(to))
  ELSE [i \in 1..Len(from) |-> <<"..">>] \o to

relative(from, to) ==
  JoinSegs(RelSegs(NormSegs(Split(from), <<>>), NormSegs(Split(to), <<>>)))

(***************************************************************************)
(* JavaScript values and JSON documents.  A document is what JSON.parse    *)
(* is given: text that is no JSON, the JSON value null, or a JSON object.  *)
(* An object carries the fields the validator reads; digest stands for     *)
(* artifact?.digest.                                                       *)
(***************************************************************************)
Undef == [t |-> "undefined", s |-> <<>>]
JNull == [t |-> "null", s |-> <<>>]
JObject == [t |-> "object", s |-> <<>>]
JStr(s) == [t |-> "string", s |-> s]

IsString(v) == v.t = "string"

EmptyObj ==
  [id |-> Undef, name |-> Undef, modality |-> Undef, owner |-> Undef,
   createdAt |-> Undef, version |-> Undef, modelId |-> Undef, digest |-> Undef]

TextDoc == [kind |-> "text", obj |-> EmptyObj]
NullDoc == [kind |-> "null", obj |-> EmptyObj]
ObjDoc(o) == [kind |-> "object", obj |-> o]

DirNode == [type |-> "dir", readable |-> TRUE, data |-> TextDoc]
FileNode(d) == [type |-> "file", readable |-> TRUE, data |-> d]

EmptyFs == (<<".">> :> DirNode)

(***************************************************************************)
(* Format validators (index.ts 50-56).                                     *)
(***************************************************************************)
NowIso == <<"2026-11-03T00:00:00.000Z">>

\* Date.parse yields a finite number on these strings and NaN on the others
ParseableDates == {NowIso, <<"2026-11-03">>}

isIsoDate(s) == s \in ParseableDates

\* tokens of the form \d+\.\d+\.\d+
CoreTokens == {"0.1.0", "1.0.0", "1.1.0"}

\* tokens made of [0-9A-Za-z.-] only
IdentTokens ==
  {"-", ".", "..", ".json", "0.1.0", "1.0", "1.0.0", "1.1.0", "PERFORMANCE.md",
   "bar",
   "foo", "model", "models", "multimodal", "nowhere", "rc", "text",
   "versions", "vision", "x"}

AllIdent(s) == s # <<>> /\ \A i \in 1..Len(s) : s[i] \in IdentTokens

\* (?:-([0-9A-Za-z.-]+))?(?:\+([0-9A-Za-z.-]+))?$
SemVerRest(r) ==
  \/ r = <<>>
  \/ /\ Head(r) = "+"
     /\ AllIdent(Tail(r))
  \/ /\ Head(r) = "-"
     /\ \/ AllIdent(Tail(r))
        \/ \E k \in 2..(Len(r) - 2) :
             /\ r[k + 1] = "+"
             /\ AllIdent(SubSeq(r, 2, k))
             /\ AllIdent(SubSeq(r, k + 2, Len(r)))

\* SEMVER_RE.test(s)
SemVerTest(s) == s # <<>> /\ Head(s) \in CoreTokens /\ SemVerRest(Tail(s))

DigestHexLen == 64

Zeros64 == "0000000000000000000000000000000000000000000000000000000000000000"
Upper64 == "ABCDEFABCDEFABCDEFABCDEFABCDEFABCDEFABCDEFABCDEFABCDEFABCDEFABCD"

\* the number of hex digits a token holds, -1 when it holds another character
HexWidth(tok) ==
  IF tok \in {Zeros64, Upper64} THEN DigestHexLen
  ELSE IF tok = "0" THEN 1
  ELSE -1

RECURSIVE HexLen(_)
HexLen(s) ==
  IF s = <<>> THEN 0
  ELSE LET w == HexWidth(Head(s))
           r == HexLen(Tail(s))
       IN IF w < 0 \/ r < 0 THEN -1 ELSE w + r

\* SHA256_RE.test(s), case-insensitive
Sha256Test(s) ==
  s # <<>> /\ Head(s) = "sha256:" /\ HexLen(Tail(s)) = DigestHexLen

(***************************************************************************)
(* The filesystem primitives the code calls (node:fs).                     *)
(***************************************************************************)
IsDir(f, p) == p \in DOMAIN f /\ f[p].type = "dir"
IsFile(f, p) == p \in DOMAIN f /\ f[p].type = "file"

RECURSIVE SortSet(_)
SortSet(ss) ==
  IF ss = {} THEN <<>>
  ELSE LET m == CHOOSE x \in ss : \A y \in ss \ {x} : StrLess(x, y)
       IN <<m>> \o SortSet(ss \ {m})

Reverse(s) == [i \in 1..Len(s) |-> s[Len(s) + 1 - i]]

\* readdirSync(dir): the names in dir, in the order the OS lists them
readdirSync(f, ord, dir) ==
  LET names == {basename(p) : p \in {q \in DOMAIN f : q # <<".">> /\ dirname(q) = dir}}
      sorted == SortSet(names)
  IN IF ord = "asc" THEN sorted ELSE Reverse(sorted)

\* walk(dir, out) of index.ts 58-66, for a dir that readdirSync can list
RECURSIVE walkNames(_, _, _, _, _)
walkNames(f, ord, dir, names, out) ==
  IF names = <<>> THEN out
  ELSE LET p == join(dir, Head(names))
           sub == IF IsDir(f, p)
                  THEN walkNames(f, ord, p, readdirSync(f, ord, p), out)
                  ELSE Append(out, p)
       IN walkNames(f, ord, dir, Tail(names), sub)

\* [err, out]: readdirSync throws on a path that is no directory
walk(f, ord, dir) ==
  IF ~IsDir(f, dir)
  THEN [err |-> "ENOENT", out |-> <<>>]
  ELSE [err |-> "", out |-> walkNames(f, ord, dir, readdirSync(f, ord, dir), <<>>)]

\* the directories mkdirSync(p, {recursive: true}) needs: p and its ancestors
Ancestors(p) ==
  LET segs == Split(p)
  IN {JoinSegs(SubSeq(segs, 1, k)) : k \in 1..Len(segs)} \cup {<<".">>}

\* ensureDir(dirname(path)) then writeFileSync(path, content) fails when a
\* regular file stands where a directory is needed, or a directory at path
WriteThrows(f, path) ==
  \/ \E d \in Ancestors(dirname(path)) : IsFile(f, d)
  \/ IsDir(f, path)

\* write(path, content) of index.ts 45-48
write(f, path, doc) ==
  LET dirs == Ancestors(dirname(path))
      g == [p \in (DOMAIN f \cup dirs \cup {path}) |->
              IF p = path THEN FileNode(doc)
              ELSE IF p \in DOMAIN f THEN f[p]
              ELSE DirNode]
  IN g

(***************************************************************************)
(* Output lines and handler results.  A line is its fixed text k and the   *)
(* values interpolated into it.                                            *)
(***************************************************************************)
Line(k, p, q, n, l) == [k |-> k, p |-> p, q |-> q, n |-> n, l |-> l]
Msg(k, p) == Line(k, p, <<>>, 0, <<>>)
Msg2(k, p, q) == Line(k, p, q, 0, <<>>)

HelpLine == Msg("thynkai (toolkits) Usage: ...", <<>>)
SuccessLine == Msg("OK: models registry validation passed.", <<>>)

Result(out, err, exit, f, trace) ==
  [out |-> out, err |-> err, exit |-> exit, fs |-> f, trace |-> trace]

\* die(msg): console.error(msg); process.exit(1)
die(line, f) == Result(<<>>, <<line>>, 1, f, <<>>)

(***************************************************************************)
(* Argument helpers (index.ts 31-39).                                      *)
(***************************************************************************)
argValue(args, name, fallback) ==
  LET i == IndexOf(args, name)
  IN IF i < 0 THEN fallback
     ELSE IF i + 2 <= Len(args) THEN JStr(args[i + 2])
     ELSE fallback

hasFlag(args, name) == \E i \in 1..Len(args) : args[i] = name

\* !v for a value that is a string or undefined
Falsy(v) == ~IsString(v) \/ v.s = <<>>

Modalities == {<<"text">>, <<"vision">>, <<"multimodal">>}

ModelJsonName == <<"model", ".json">>

(***************************************************************************)
(* parseJson (index.ts 68-74): readFileSync and JSON.parse share one try,  *)
(* so whatever either throws is rethrown as invalid_json.                  *)
(***************************************************************************)
ReadThrows(f, path) == ~IsFile(f, path) \/ ~f[path].readable

parseJson(f, path) ==
  IF ReadThrows(f, path) \/ f[path].data.kind = "text"
  THEN [threw |-> TRUE, msg |-> Msg("invalid_json", path), doc |-> NullDoc]
  ELSE [threw |-> FALSE, msg |-> Msg("", <<>>), doc |-> f[path].data]

(***************************************************************************)
(* init model (index.ts 80-141).                                           *)
(***************************************************************************)
modelJson(id, name, modality, version) ==
  ObjDoc([EmptyObj EXCEPT !.id = JStr(id), !.name = JStr(name),
                          !.modality = JStr(modality), !.owner = JObject,
                          !.createdAt = JStr(NowIso),
                          !.version = JStr(version)])

versionJson(id, version) ==
  ObjDoc([EmptyObj EXCEPT !.modelId = JStr(id), !.version = JStr(version),
                          !.digest = JStr(<<"sha256:", Zeros64>>)])

\* the three write calls of index.ts 126-137, in order: [path, doc]
ScaffoldWrites(base, id, name, modality, version) ==
  << [path |-> join(base, ModelJsonName),
      doc |-> modelJson(id, name, modality, version)],
     [path |-> join(join(base, <<"versions">>), version \o <<".json">>),
      doc |-> versionJson(id, version)],
     [path |-> join(base, <<"PERFORMANCE.md">>), doc |-> TextDoc] >>

\* the writes run in order; the first one that throws ends the handler
RECURSIVE DoWrites(_, _)
DoWrites(f, ws) ==
  IF ws = <<>> THEN [threw |-> FALSE, fs |-> f, at |-> <<>>]
  ELSE IF WriteThrows(f, Head(ws).path)
       THEN [threw |-> TRUE, fs |-> f, at |-> Head(ws).path]
  ELSE DoWrites(write(f, Head(ws).path, Head(ws).doc), Tail(ws))

\* the first failing flag check of index.ts 89-94, or "" when all pass
InitFlagError(modality, slug, id, version) ==
  IF Falsy(modality) \/ modality.s \notin Modalities
  THEN "init model: --modality must be one of text|vision|multimodal"
  ELSE IF Falsy(slug) THEN "init model: --slug is required"
  ELSE IF Falsy(id) THEN "init model: --id is required (recommended org/name)"
  ELSE IF Falsy(version) \/ ~SemVerTest(version.s)
       THEN "init model: --version must be SemVer"
  ELSE ""

\* index.ts 126-140: the writes, then the report
scaffold(base, done) ==
  IF done.threw THEN Result(<<>>, <<Msg("EIO", done.at)>>, 1, done.fs, <<>>)
  ELSE Result(<<Msg("Scaffolded:", base)>>, <<>>, 0, done.fs, <<>>)

\* base of index.ts 96-97
scaffoldBase(root, modality, slug) ==
  join(join(join(root, <<"models">>), modality), slug)

\* a scaffolder that checks --version only after it has written
cmdInitModelLate(args, f) ==
  LET modality == argValue(args, <<"--modality">>, Undef)
      slug == argValue(args, <<"--slug">>, Undef)
      id == argValue(args, <<"--id">>, Undef)
      name == argValue(args, <<"--name">>,
                       IF ~Falsy(slug) THEN slug ELSE JStr(<<"New Model">>))
      version == argValue(args, <<"--version">>, JStr(<<"0.1.0">>))
      early == InitFlagError(modality, slug, id, JStr(<<"0.1.0">>))
      flagError == InitFlagError(modality, slug, id, version)
      root == argValue(args, <<"--root">>, JStr(<<".">>))
      base == scaffoldBase(root.s, modality.s, slug.s)
  IN IF early # "" THEN die(Msg(early, <<>>), f)
     ELSE IF flagError # ""
          THEN die(Msg(flagError, <<>>),
                   DoWrites(f, ScaffoldWrites(base, id.s, name.s, modality.s,
                                              version.s)).fs)
     ELSE scaffold(base, DoWrites(f, ScaffoldWrites(base, id.s, name.s,
                                                    modality.s, version.s)))

cmdInitModel(args, f) ==
  LET modality == argValue(args, <<"--modality">>, Undef)
      slug == argValue(args, <<"--slug">>, Undef)
      id == argValue(args, <<"--id">>, Undef)
      name == argValue(args, <<"--name">>,
                       IF ~Falsy(slug) THEN slug ELSE JStr(<<"New Model">>))
      version == argValue(args, <<"--version">>, JStr(<<"0.1.0">>))
      flagError == InitFlagError(modality, slug, id, version)
      root == argValue(args, <<"--root">>, JStr(<<".">>))
      base == scaffoldBase(root.s, modality.s, slug.s)
  IN IF flagError # "" THEN die(Msg(flagError, <<>>), f)
     ELSE scaffold(base, DoWrites(f, ScaffoldWrites(base, id.s, name.s,
                                                    modality.s, version.s)))

(***************************************************************************)
(* validate models (index.ts 143-201).  A run threads a record through     *)
(* the checks: once a check has thrown, no later check is evaluated.  The  *)
(* trace lists the checks that were evaluated, in order.                   *)
(***************************************************************************)
NoRun == [failed |-> FALSE, err |-> <<>>, trace |-> <<>>]

Step(check, file, ok) == [check |-> check, file |-> file, ok |-> ok]

\* assert(cond, msg) of index.ts 76-78, as check `check` on `file`
assert(st, check, file, cond, msg) ==
  IF st.failed THEN st
  ELSE [failed |-> ~cond,
        err |-> IF cond THEN st.err ELSE Append(st.err, msg),
        trace |-> Append(st.trace, Step(check, file, cond))]

\* an exception thrown while check `check` is evaluated
throwAt(st, check, file, msg) ==
  IF st.failed THEN st
  ELSE [failed |-> TRUE, err |-> Append(st.err, msg),
        trace |-> Append(st.trace, Step(check, file, FALSE))]

\* reading a property of null throws a TypeError that names the property only
TypeErrorLine(prop) ==
  Msg("Cannot read properties of null", <<prop>>)

\* a check whose condition reads property prop of the parsed document
assertOn(st, doc, prop, check, file, cond, msg) ==
  IF doc.kind = "null" THEN throwAt(st, check, file, TypeErrorLine(prop))
  ELSE assert(st, check, file, cond, msg)

parseStep(st, f, check, file) ==
  LET r == parseJson(f, file)
  IN IF r.threw THEN throwAt(st, check, file, r.msg)
     ELSE assert(st, check, file, TRUE, r.msg)

\* typeof v === "string" && v.trim()
NonBlankString(v) == IsString(v) /\ Trim(v.s) # <<>>

\* folderModality of index.ts 163-165, undefined when there is none
folderModality(mf) ==
  LET parts == Split(mf)
      idx == IndexOf(parts, <<"models">>)
  IN IF idx >= 0 /\ idx + 2 <= Len(parts) THEN JStr(parts[idx + 2]) ELSE Undef

perfPath(mf) == ReplaceSuffix(mf, ModelJsonName, <<"PERFORMANCE.md">>)
versionsDir(mf) == ReplaceSuffix(mf, ModelJsonName, <<"versions">>)
expectedFile(mf, version) == join(versionsDir(mf), version \o <<".json">>)

\* matching of index.ts 178-180
matching(versionFiles, mf) ==
  LET Under(vf) == StartsWith(vf, versionsDir(mf))
  IN SelectSeq(versionFiles, Under)

Range(s) == {s[i] : i \in 1..Len(s)}

\* a validator that forgets the current-version pointer
includesExpectedAny(match, mf, version) == TRUE

\* matching.includes(expectedFile)
includesExpected(match, mf, version) == expectedFile(mf, version) \in Range(match)

\* versionFromFile of index.ts 189-190
versionFromFile(vf) == ReplaceSuffix(basename(vf), <<".json">>, <<>>)

digestOk(v) == IsString(v.digest) /\ Sha256Test(v.digest.s)

\* the checks of index.ts 187-195 on the parsed version document d
validateParsedVersion(st, m, vf, d) ==
  LET v == d.obj
      s1 == assertOn(st, d, "modelId", "modelId", vf, v.modelId = m.id,
                     Msg("version.modelId mismatch", vf))
      s2 == assert(s1, "vversion", vf,
                   IsString(v.version) /\ SemVerTest(v.version.s),
                   Msg("version.version invalid", vf))
      s3 == assert(s2, "filename", vf,
                   IsString(v.version) /\ versionFromFile(vf) = v.version.s,
                   Msg("version filename mismatch", vf))
  IN IF v.digest # Undef
     THEN assert(s3, "digest", vf, digestOk(v), Msg("artifact.digest invalid", vf))
     ELSE s3

\* the body of the loop over matching (index.ts 185-196) for one version file
validateVersion(st, f, m, vf) ==
  validateParsedVersion(parseStep(st, f, "vparse", vf), m, vf, parseJson(f, vf).doc)

\* a validator that checks the first version file of a model only
validateVersionsFirstOnly(st, f, m, vfs) ==
  IF vfs = <<>> \/ st.failed THEN st ELSE validateVersion(st, f, m, Head(vfs))

RECURSIVE validateVersions(_, _, _, _)
validateVersions(st, f, m, vfs) ==
  IF vfs = <<>> \/ st.failed THEN st
  ELSE validateVersions(validateVersion(st, f, m, Head(vfs)), f, m, Tail(vfs))

\* the checks of index.ts 156-196 on the parsed model document d
validateParsed(st, f, mf, d, match) ==
  LET m == d.obj
      s1 == assertOn(st, d, "id", "id", mf, NonBlankString(m.id),
                     Msg("model.id required", mf))
      s2 == assert(s1, "name", mf, NonBlankString(m.name),
                   Msg("model.name required", mf))
      s3 == assert(s2, "modality", mf,
                   IsString(m.modality) /\ m.modality.s \in Modalities,
                   Msg("model.modality invalid", mf))
      s4 == assert(s3, "owner", mf, m.owner.t = "object",
                   Msg("model.owner required", mf))
      s5 == assert(s4, "createdAt", mf,
                   IsString(m.createdAt) /\ isIsoDate(m.createdAt.s),
                   Msg("createdAt must be ISO date", mf))
      s6 == assert(s5, "version", mf,
                   IsString(m.version) /\ SemVerTest(m.version.s),
                   Msg("model.version must be SemVer", mf))
      s7 == assert(s6, "folder", mf, folderModality(mf) = m.modality,
                   Msg("modality folder mismatch for", m.id.s))
      s8 == assert(s7, "perf", mf, IsFile(f, perfPath(mf)),
                   Msg("PERFORMANCE.md missing", perfPath(mf)))
      s9 == assert(s8, "anyVersion", mf, Len(match) > 0,
                   Msg("no versions found for model", m.id.s))
      s10 == assert(s9, "expectedVersion", mf,
                    includesExpected(match, mf, m.version.s),
                    Msg2("missing versions/<version>.json for model",
                         m.version.s, m.id.s))
  IN validateVersions(s10, f, m, match)

\* the body of the loop over modelFiles (index.ts 153-197) for one model file
validateModel(st, f, versionFiles, mf) ==
  validateParsed(parseStep(st, f, "parse", mf), f, mf, parseJson(f, mf).doc,
                 matching(versionFiles, mf))

RECURSIVE validateModelFiles(_, _, _, _)
validateModelFiles(st, f, versionFiles, mfs) ==
  IF mfs = <<>> \/ st.failed THEN st
  ELSE validateModelFiles(validateModel(st, f, versionFiles, Head(mfs)),
                          f, versionFiles, Tail(mfs))

IsModelFile(p) == EndsWith(p, ModelJsonName)
IsVersionFile(p) == HasVersionsSep(p) /\ EndsWith(p, <<".json">>)

\* a validator that repairs the tree: it adds the PERFORMANCE.md a model lacks
validateRepairs(f) ==
  LET missing == {perfPath(p) : p \in {q \in DOMAIN f : IsModelFile(q)}} \ DOMAIN f
  IN [p \in DOMAIN f \cup missing |-> IF p \in DOMAIN f THEN f[p] ELSE FileNode(TextDoc)]

\* what the handler writes to the tree: it calls no writing function
validateWrites(f) == f

\* index.ts 199-200, or the error main prints for what the handler threw
validateReport(f, st) ==
  IF st.err # <<>> THEN Result(<<>>, st.err, 1, validateWrites(f), st.trace)
  ELSE Result(<<SuccessLine>>, <<>>, 0, validateWrites(f), st.trace)

\* index.ts 151-197 on the partitioned file list
validateAll(f, modelsDir, modelFiles, versionFiles) ==
  validateModelFiles(
    assert(NoRun, "anyModel", modelsDir, Len(modelFiles) > 0,
           Msg("no model.json entries found under models/", <<>>)),
    f, versionFiles, modelFiles)

\* index.ts 146-149 on what walk returned or threw
validateWalked(f, modelsDir, w) ==
  IF w.err # "" THEN Result(<<>>, <<Msg(w.err, modelsDir)>>, 1, f, <<>>)
  ELSE validateReport(f, validateAll(f, modelsDir, SelectSeq(w.out, IsModelFile),
                                     SelectSeq(w.out, IsVersionFile)))

\* modelsDir of index.ts 144-145
modelsDirOf(args) == join(argValue(args, <<"--root">>, JStr(<<".">>)).s, <<"models">>)

cmdValidateModels(args, f, ord) ==
  validateWalked(f, modelsDirOf(args), walk(f, ord, modelsDirOf(args)))

(***************************************************************************)
(* digest (index.ts 203-217).  The SHA-256 of a content is a token that    *)
(* names the content.                                                      *)
(***************************************************************************)
sha256hex(node) == ToString(node.data)

cmdDigest(args, f) ==
  LET file == argValue(args, <<"--file">>, Undef)
      out == <<"sha256:", sha256hex(f[file.s])>>
  IN IF Falsy(file) THEN die(Msg("digest: --file is required", <<>>), f)
     ELSE IF ReadThrows(f, file.s) THEN Result(<<>>, <<Msg("ENOENT", file.s)>>, 1, f, <<>>)
     ELSE IF hasFlag(args, <<"--json">>)
          THEN Result(<<Msg2("digest-json", file.s, out)>>, <<>>, 0, f, <<>>)
     ELSE Result(<<Msg("digest", out)>>, <<>>, 0, f, <<>>)

(***************************************************************************)
(* publish (index.ts 219-265).  git is what execSync does: it throws, or   *)
(* returns the text git printed.                                           *)
(***************************************************************************)
\* text.split(/\r?\n/)
RECURSIVE SplitLines(_, _, _)
SplitLines(s, cur, acc) ==
  IF s = <<>> THEN Append(acc, cur)
  ELSE IF Head(s) = "\n" THEN SplitLines(Tail(s), <<>>, Append(acc, cur))
  ELSE SplitLines(Tail(s), Append(cur, Head(s)), acc)

\* tokens that are one character long
OneChar == {" ", "M", "?", "a", "-", ".", "/", "x"}

\* l.slice(n): a cut inside a longer token leaves "~" and the token
RECURSIVE Slice(_, _)
Slice(l, n) ==
  IF n = 0 \/ l = <<>> THEN l
  ELSE IF Head(l) \in OneChar THEN Slice(Tail(l), n - 1)
  ELSE <<"~">> \o l

NonEmpty(s) == s # <<>>

StatusPath(l) == Trim(Slice(l, 3))

MapStatus(ls) == [i \in 1..Len(ls) |-> StatusPath(ls[i])]

\* Array.prototype.sort with the default comparison
RECURSIVE Insert(_, _)
Insert(sorted, x) ==
  IF sorted = <<>> THEN <<x>>
  ELSE IF StrLess(x, Head(sorted)) THEN <<x>> \o sorted
  ELSE <<Head(sorted)>> \o Insert(Tail(sorted), x)

\* a summary that is left in the order the files were found
sortNone(s) == s

RECURSIVE sort(_)
sort(s) == IF s = <<>> THEN <<>> ELSE Insert(sort(DropLast(s, 1)), s[Len(s)])

\* the fallback of index.ts 245-248: every file under root
fallbackListing(f, ord, root) ==
  LET w == walk(f, ord, root)
  IN [err |-> w.err,
      out |-> [i \in 1..Len(w.out) |-> relative(<<".">>, w.out[i])]]

\* changed of index.ts 234-244, from the text git printed
gitChanged(out, withSince) ==
  LET text == Trim(out)
      lines == IF text = <<>> THEN <<>> ELSE SplitLines(text, <<>>, <<>>)
  IN IF withSince THEN SelectSeq(lines, NonEmpty)
     ELSE SelectSeq(MapStatus(lines), NonEmpty)

PublishNote == Msg("Note: publish is dry-run only. Open a PR to submit changes.", <<>>)

Items(changedFiles) == [i \in 1..Len(changedFiles) |-> Msg(" -", changedFiles[i])]

\* index.ts 257-264
publishPrint(root, since, jsonOut, changedFiles, count, f) ==
  IF jsonOut
  THEN Result(<<Line("summary", root, since, count, changedFiles), PublishNote>>,
              <<>>, 0, f, <<>>)
  ELSE Result(<<Line("Changed files", <<>>, <<>>, count, <<>>)>>
                \o Items(changedFiles) \o <<PublishNote>>,
              <<>>, 0, f, <<>>)

\* summary of index.ts 250-255: sort() sorts changed in place
publishSummary(root, since, jsonOut, changed, f) ==
  publishPrint(root, since, jsonOut, sort(changed), Len(changed), f)

\* the catch of index.ts 245-248; what walk throws there reaches main
publishFallback(root, since, jsonOut, fb, f) ==
  IF fb.err # "" THEN Result(<<>>, <<Msg(fb.err, root)>>, 1, f, <<>>)
  ELSE publishSummary(root, since, jsonOut, fb.out, f)

cmdPublish(args, f, ord, git) ==
  LET root == argValue(args, <<"--root">>, JStr(<<".">>)).s
      since == argValue(args, <<"--since">>, Undef)
      jsonOut == hasFlag(args, <<"--json">>)
      sinceOrNull == IF IsString(since) THEN since.s ELSE <<"null">>
  IN IF git.ok
     THEN publishSummary(root, sinceOrNull, jsonOut,
                         gitChanged(git.out, ~Falsy(since)), f)
     ELSE publishFallback(root, sinceOrNull, jsonOut,
                          fallbackListing(f, ord, root), f)

(***************************************************************************)
(* main (index.ts 267-304): one process invocation.                        *)
(***************************************************************************)
usageRequested(argv) ==
  argv = <<>> \/ hasFlag(argv, <<"--help">>) \/ hasFlag(argv, <<"-h">>)

\* key of index.ts 283-288, "" for null
commandKey(argv) ==
  LET c1 == argv[1]
      c2 == IF Len(argv) >= 2 THEN argv[2] ELSE <<>>
  IN IF c1 = <<"init">> /\ c2 = <<"model">> THEN "init:model"
     ELSE IF c1 = <<"validate">> /\ c2 = <<"models">> THEN "validate:models"
     ELSE IF c1 = <<"digest">> THEN "digest"
     ELSE IF c1 = <<"publish">> THEN "publish"
     ELSE ""

\* const [c1, c2, ...rest] = args
rest(argv) == SubSeq(argv, 3, Len(argv))

\* commands.get(key)!(rest)
runHandler(key, args, f, ord, git) ==
  IF key = "init:model" THEN cmdInitModel(args, f)
  ELSE IF key = "validate:models" THEN cmdValidateModels(args, f, ord)
  ELSE IF key = "digest" THEN cmdDigest(args, f)
  ELSE cmdPublish(args, f, ord, git)

NoTrace == <<>>

\* what one invocation was given (argv, the tree before, what git did) and
\* what it showed (stdout, stderr, the exit code, the handlers it ran)
Invocation(cmd, argv, handlers, r, before, git) ==
  [cmd |-> cmd, argv |-> argv, handlers |-> handlers, out |-> r.out,
   err |-> r.err, exit |-> r.exit, trace |-> r.trace, before |-> before,
   git |-> git]

\* a dispatcher that exits with 0 whatever the handler did
exitedZero(key, argv, r, f, git) ==
  [inv |-> Invocation(key, argv, <<key>>, [r EXCEPT !.exit = 0], f, git), fs |-> r.fs]

\* process.exit(exitCode) after the handler; die and the catch exit with 1
exited(key, argv, r, f, git) ==
  [inv |-> Invocation(key, argv, <<key>>, r, f, git), fs |-> r.fs]

main(argv, f, ord, git) ==
  IF usageRequested(argv)
  THEN [inv |-> Invocation("usage", argv, <<>>,
                           Result(<<HelpLine>>, <<>>, 0, f, NoTrace), f, git),
        fs |-> f]
  ELSE IF commandKey(argv) = ""
  THEN [inv |-> Invocation("unknown", argv, <<>>,
                           Result(<<HelpLine>>, <<Msg("Unknown command.", <<>>)>>,
                                  1, f, NoTrace), f, git),
        fs |-> f]
  ELSE exited(commandKey(argv), argv,
              runHandler(commandKey(argv), rest(argv), f, ord, git), f, git)

(***************************************************************************)
(* Hand edits: what a contributor does to a scaffolded tree between runs.  *)
(***************************************************************************)
Files(f) == {p \in DOMAIN f : f[p].type = "file"}
ObjectFiles(f) == {p \in Files(f) : f[p].data.kind = "object"}

\* the values an edit gives a field that the document already has
EditValues ==
  [id |-> {JStr(<<" ">>)},
   name |-> {Undef},
   modality |-> {JStr(<<"text">>), JStr(<<"vision">>)},
   owner |-> {Undef},
   createdAt |-> {JStr(<<"soon">>)},
   version |-> {JStr(<<"1.1.0">>), JStr(<<"1.0">>)},
   modelId |-> {JStr(<<"org/other">>)},
   digest |-> {Undef, JStr(<<"sha256:", Zeros64, "0">>)}]

setField(f, p, field, value) == [f EXCEPT ![p].data.obj[field] = value]
setData(f, p, doc) == [f EXCEPT ![p].data = doc]
chmodUnreadable(f, p) == [f EXCEPT ![p].readable = FALSE]
remove(f, p) == [q \in DOMAIN f \ {p} |-> f[q]]

\* a new release record beside the first one
addVersion(f, p) ==
  write(f, join(join(dirname(p), <<"versions">>), <<"1.1.0", ".json">>),
        versionJson(f[p].data.obj.id.s, <<"1.1.0">>))

\* a release record copied to a new name and left as it was
copyVersion(f, p) == write(f, join(dirname(p), <<"1.1.0", ".json">>), f[p].data)

FieldEdits(f, p) ==
  UNION {{setField(f, p, fld, v) : v \in EditValues[fld]} :
           fld \in {k \in DOMAIN EditValues : f[p].data.obj[k] # Undef}}

HandEdits(f) ==
  UNION {FieldEdits(f, p) : p \in ObjectFiles(f)}
  \cup {setData(f, p, TextDoc) : p \in ObjectFiles(f)}
  \cup {setData(f, p, NullDoc) : p \in ObjectFiles(f)}
  \cup {chmodUnreadable(f, p) : p \in ObjectFiles(f)}
  \cup {remove(f, p) : p \in Files(f)}
  \cup {copyVersion(f, p) : p \in {q \in ObjectFiles(f) : IsVersionFile(q)}}
  \cup {addVersion(f, p) : p \in {q \in ObjectFiles(f) :
                                    IsModelFile(q) /\ IsString(f[q].data.obj.id)}}

(***************************************************************************)
(* Command lines.                                                          *)
(***************************************************************************)
Words(toks) == [i \in 1..Len(toks) |-> <<toks[i]>>]

RootModelsText == <<"models", "/", "text">>

InitText ==
  Words(<<"init", "model", "--modality", "text", "--slug", "foo",
          "--id", "org/demo", "--version", "1.0.0">>)
InitVision ==
  Words(<<"init", "model", "--modality", "vision", "--slug", "bar",
          "--id", "org/demo", "--version", "1.0.0", "--root">>)
    \o <<RootModelsText>>
InitBlankId ==
  Words(<<"init", "model", "--modality", "text", "--slug", "foo",
          "--id", " ", "--version", "1.0.0">>)
InitDefaults ==
  Words(<<"init", "model", "--modality", "multimodal", "--slug", "bar",
          "--id", "org/demo">>)
InitBadModality ==
  Words(<<"init", "model", "--modality", "audio", "--slug", "foo",
          "--id", "org/demo">>)
InitNoSlug == Words(<<"init", "model", "--modality", "text", "--id", "org/demo">>)
InitNoId == Words(<<"init", "model", "--modality", "text", "--slug", "foo">>)
InitBadVersion ==
  Words(<<"init", "model", "--modality", "text", "--slug", "foo",
          "--id", "org/demo", "--version", "1.0">>)

ValidateHere == Words(<<"validate", "models">>)
ValidateModelsText == Words(<<"validate", "models", "--root">>) \o <<RootModelsText>>

ModelJsonHere == <<"models", "/", "text", "/", "foo", "/", "model", ".json">>

ScaffoldArgv == {InitText, InitVision, InitBlankId}
ValidateArgv == {ValidateHere, ValidateModelsText}

CliArgv ==
  { <<>>, Words(<<"digest", "--file", "-h">>),
    Words(<<"init">>), Words(<<"scaffold", "model">>),
    InitText, InitVision, InitDefaults, InitBadModality, InitNoSlug, InitNoId,
    InitBadVersion,
    ValidateHere, ValidateModelsText,
    Words(<<"digest", "--file">>) \o <<ModelJsonHere>>,
    Words(<<"digest", "x", "--json", "--file">>) \o <<ModelJsonHere>>,
    Words(<<"publish">>),
    Words(<<"publish", "x", "--json", "--root", "models">>),
    Words(<<"publish", "x", "--root", "nowhere">>),
    Words(<<"publish", "x", "--since", "x">>) }

\* what execSync("git ...") can do
GitThrows == [ok |-> FALSE, out |-> <<>>]
GitOutcomes ==
  { GitThrows,
    [ok |-> TRUE, out |-> <<" ", "M", " ", "a", "\n", "?", "?", " ", "models", "/", "x", "\n">>],
    [ok |-> TRUE, out |-> <<"models", "/", "x", "\n", "a", "\n">>] }

(***************************************************************************)
(* The state machine.                                                      *)
(***************************************************************************)
NoInvocation ==
  Invocation("none", <<>>, <<>>, Result(<<>>, <<>>, 0, EmptyFs, NoTrace), EmptyFs,
             GitThrows)

RegistryCommands == {"init:model", "validate:models"}

Init ==
  /\ fs = EmptyFs
  /\ listing \in {"asc", "desc"}
  /\ last = NoInvocation
  /\ prev = NoInvocation
  /\ edits = 0

\* one process invocation, from start to exit
Invoke(argv, git) ==
  \E m \in {main(argv, fs, listing, git)} :
     /\ fs' = m.fs
     /\ last' = m.inv
     /\ prev' = IF m.inv.cmd = "validate:models" /\ last.cmd \in RegistryCommands
                THEN last ELSE NoInvocation
     /\ UNCHANGED <<listing, edits>>

Dispatches(argv, key) == ~usageRequested(argv) /\ commandKey(argv) = key

Usage(A) == \E argv \in A : usageRequested(argv) /\ Invoke(argv, GitThrows)

UnknownCommand(A) == \E argv \in A : Dispatches(argv, "") /\ Invoke(argv, GitThrows)

CmdInitModel(A) ==
  \E argv \in A : Dispatches(argv, "init:model") /\ Invoke(argv, GitThrows)

CmdValidateModels(A) ==
  \E argv \in A : Dispatches(argv, "validate:models") /\ Invoke(argv, GitThrows)

CmdDigest(A) == \E argv \in A : Dispatches(argv, "digest") /\ Invoke(argv, GitThrows)

CmdPublish(A) ==
  \E argv \in A, git \in GitOutcomes : Dispatches(argv, "publish") /\ Invoke(argv, git)

Edit ==
  /\ edits < MaxEdits
  /\ \E g \in HandEdits(fs) : g # fs /\ fs' = g
  /\ last' = NoInvocation
  /\ prev' = NoInvocation
  /\ edits' = edits + 1
  /\ UNCHANGED listing

\* the root a scaffold is run on holds no models tree yet, and nothing was edited
FreshRoot(argv) ==
  /\ edits = 0
  /\ ~IsDir(fs, join(argValue(rest(argv), <<"--root">>, JStr(<<".">>)).s, <<"models">>))

Scaffold == CmdInitModel({argv \in ScaffoldArgv : FreshRoot(argv)})

\* at most two validation runs in a row
Validate ==
  /\ ~(last.cmd = "validate:models" /\ prev.cmd = "validate:models")
  /\ CmdValidateModels(ValidateArgv)

\* the registry's life: scaffolded, hand-edited, validated on demand
Next == Scaffold \/ Edit \/ Validate

Spec == Init /\ [][Next]_vars

\* the command line: any sequence of invocations
NextCli ==
  \/ Usage(CliArgv)
  \/ UnknownCommand(CliArgv)
  \/ CmdInitModel(CliArgv)
  \/ CmdValidateModels(CliArgv)
  \/ CmdDigest(CliArgv)
  \/ CmdPublish(CliArgv)

SpecCli == Init /\ [][NextCli]_vars

(***************************************************************************)
(* Properties.  last is the latest invocation, last.before the tree it ran *)
(* on, prev the invocation before it when both worked on the registry.     *)
(***************************************************************************)
Tree == last.before
RootOf(inv) == argValue(rest(inv.argv), <<"--root">>, JStr(<<".">>)).s
Registry == join(RootOf(last), <<"models">>)

Validated == last.cmd = "validate:models"
Passed == Validated /\ last.exit = 0 /\ last.out = <<SuccessLine>> /\ last.err = <<>>
Checked == Validated /\ last.trace # <<>>
FailedStep == last.trace[Len(last.trace)]

\* the files the run treated as model files, in the order the walker gave
ModelFiles == SelectSeq(walk(Tree, listing, Registry).out, IsModelFile)
DocOf(p) == Tree[p].data.obj

\* the version files of the model at mf: the .json files under its versions/
VersionFilesOf(mf) ==
  {p \in Files(Tree) : /\ StartsWith(p, dirname(mf) \o <<"/", "versions", "/">>)
                       /\ EndsWith(p, <<".json">>)}

ModelChecks ==
  <<"parse", "id", "name", "modality", "owner", "createdAt", "version", "folder",
    "perf", "anyVersion", "expectedVersion">>
VersionChecks == <<"vparse", "modelId", "vversion", "filename", "digest">>

CheckMessage ==
  [anyModel |-> "no model.json entries found under models/",
   parse |-> "invalid_json",
   id |-> "model.id required",
   name |-> "model.name required",
   modality |-> "model.modality invalid",
   owner |-> "model.owner required",
   createdAt |-> "createdAt must be ISO date",
   version |-> "model.version must be SemVer",
   folder |-> "modality folder mismatch for",
   perf |-> "PERFORMANCE.md missing",
   anyVersion |-> "no versions found for model",
   expectedVersion |-> "missing versions/<version>.json for model",
   vparse |-> "invalid_json",
   modelId |-> "version.modelId mismatch",
   vversion |-> "version.version invalid",
   filename |-> "version filename mismatch",
   digest |-> "artifact.digest invalid"]

Successor(order, a, b) ==
  \E i \in 1..(Len(order) - 1) :
     a.check = order[i] /\ b.check = order[i + 1] /\ b.file = a.file

\* step b is the check the fixed order puts right after step a
Follows(a, b) ==
  \/ a.check = "anyModel" /\ b.check = "parse"
  \/ Successor(ModelChecks, a, b)
  \/ a.check = "expectedVersion" /\ b.check = "vparse" /\ b.file \in VersionFilesOf(a.file)
  \/ Successor(VersionChecks, a, b)
  \/ a.check \in {"filename", "digest"} /\ b.check \in {"vparse", "parse"}
       /\ b.file # a.file

ParsedModels == SelectSeq(last.trace, LAMBDA s : s.check = "parse")

\* the evaluated checks are a run of the fixed order that stops at the first
\* violated one, or covers every model file when none is violated
FailFastOrder ==
  /\ last.trace[1].check = "anyModel"
  /\ \A i \in 1..(Len(last.trace) - 1) :
        last.trace[i].ok /\ Follows(last.trace[i], last.trace[i + 1])
  /\ Len(ParsedModels) <= Len(ModelFiles)
  /\ \A i \in 1..Len(ParsedModels) : ParsedModels[i].file = ModelFiles[i]
  /\ FailedStep.ok => /\ Len(ParsedModels) = Len(ModelFiles)
                      /\ FailedStep.check \in {"filename", "digest"}

FailFastReport ==
  IF FailedStep.ok THEN Passed
  ELSE last.exit = 1 /\ last.out = <<>> /\ Len(last.err) = 1

ReportsFailedCheck == last.err[1].k = CheckMessage[FailedStep.check]

\* C1: validate models is fail-fast.  The checks it evaluates follow the fixed
\* order over the model files in walker order, the run stops at the first
\* violated check, reports exactly one message, which is the message of that
\* check, and prints the success line only when no check was violated.
C1_FailFast ==
  Checked => /\ FailFastOrder
             /\ FailFastReport
             /\ ~FailedStep.ok => ReportsFailedCheck

\* The same for every run whose failing check did not read a property of a
\* document that is the JSON value null.
FailFastUnlessNull ==
  Checked => /\ FailFastOrder
             /\ FailFastReport
             /\ (~FailedStep.ok /\ Tree[FailedStep.file].data.kind # "null")
                  => ReportsFailedCheck

\* C2: whenever validate models succeeds, every file it treated as a model file
\* lives at <root>/models/<modality>/<slug>/model.json, and that <modality>
\* segment, the one right after the models directory of the registry, equals
\* the document's modality field.
C2_ModelLayout ==
  Passed =>
    \A i \in 1..Len(ModelFiles) :
       LET rel == RelSegs(Split(Registry), Split(ModelFiles[i]))
       IN /\ Len(rel) = 3
          /\ rel[3] = ModelJsonName
          /\ DocOf(ModelFiles[i]).modality = JStr(rel[1])

ExpectedVersionFile(mf) ==
  dirname(mf) \o <<"/", "versions", "/">> \o DocOf(mf).version.s \o <<".json">>

\* C3: whenever validate models succeeds, every model has the sibling file
\* versions/<model.version>.json among its version files; and a model that
\* passed every earlier check and has version files but not that one makes the
\* run exit 1 with the message that names the missing version file.
C3_CurrentVersionPointer ==
  /\ Passed => \A i \in 1..Len(ModelFiles) :
                  ExpectedVersionFile(ModelFiles[i]) \in VersionFilesOf(ModelFiles[i])
  /\ Validated =>
       \A i \in 1..Len(last.trace) :
          LET s == last.trace[i]
          IN (s.check = "anyVersion" /\ s.ok
                /\ ExpectedVersionFile(s.file) \notin VersionFilesOf(s.file))
             => /\ last.exit = 1
                /\ last.out = <<>>
                /\ last.err = <<Msg2("missing versions/<version>.json for model",
                                     DocOf(s.file).version.s, DocOf(s.file).id.s)>>

C3_Witness ==
  /\ Validated /\ last.exit = 1
  /\ last.trace # <<>>
  /\ FailedStep.check = "expectedVersion"
  /\ VersionFilesOf(FailedStep.file) # {}

VersionFileValid(mf, vf) ==
  LET v == DocOf(vf)
  IN /\ Tree[vf].data.kind = "object"
     /\ v.modelId = DocOf(mf).id
     /\ IsString(v.version) /\ SemVerTest(v.version.s)
     /\ basename(vf) = v.version.s \o <<".json">>
     /\ v.digest # Undef => IsString(v.digest) /\ Sha256Test(v.digest.s)

\* C4: whenever validate models succeeds, every version file under every
\* model's versions/ directory, older versions too, has the model's id as
\* modelId, a SemVer version, a filename stem equal to that version, and a
\* digest that, when present, has the digest format.
C4_EveryVersionFile ==
  Passed => \A i \in 1..Len(ModelFiles) :
               \A vf \in VersionFilesOf(ModelFiles[i]) :
                  VersionFileValid(ModelFiles[i], vf)

C4_Witness ==
  Passed /\ \E i \in 1..Len(ModelFiles) : Cardinality(VersionFilesOf(ModelFiles[i])) >= 2

\* C5: the loader fails with invalid_json only when the file was read and its
\* content is not valid JSON; when the file cannot be read it propagates the
\* I/O error.
C5_LoaderFailureKinds ==
  (Checked /\ ~FailedStep.ok /\ FailedStep.check \in {"parse", "vparse"}) =>
     IF Tree[FailedStep.file].readable
     THEN last.err = <<Msg("invalid_json", FailedStep.file)>>
     ELSE \A i \in 1..Len(last.err) : last.err[i].k # "invalid_json"

AsksUsage(argv) == argv = <<>> \/ <<"--help">> \in Range(argv) \/ <<"-h">> \in Range(argv)

\* C6: one invocation runs at most one handler; the exit code is 0 exactly when
\* usage was requested or the one dispatched handler completed without error;
\* an unknown command prints an error line and the usage and exits 1 with no
\* handler run; a handler failure prints its message to the error stream and
\* exits 1.
C6_Dispatch ==
  last.cmd # "none" =>
    /\ Len(last.handlers) <= 1
    /\ last.exit \in {0, 1}
    /\ last.exit = 0 <=> \/ AsksUsage(last.argv)
                         \/ Len(last.handlers) = 1 /\ last.err = <<>>
    /\ AsksUsage(last.argv) => last.handlers = <<>> /\ last.out = <<HelpLine>>
    /\ last.cmd = "unknown" => /\ last.handlers = <<>>
                               /\ last.err = <<Msg("Unknown command.", <<>>)>>
                               /\ last.out = <<HelpLine>>
                               /\ last.exit = 1
    /\ (last.handlers # <<>> /\ last.exit = 1) => last.err # <<>>

C6_Witness ==
  /\ last.handlers = <<"validate:models">>
  /\ last.exit = 1
  /\ last.err # <<>>
  /\ Tree # EmptyFs

Published == last.cmd = "publish"
VcFailed == Published /\ ~last.git.ok

\* the paths and the count a publish summary shows
ListedPaths ==
  IF last.out[1].k = "summary" THEN last.out[1].l
  ELSE [i \in 1..(Len(last.out) - 2) |-> last.out[i + 1].p]
ListedCount == last.out[1].n

IsSorted(s) == \A i, j \in 1..Len(s) : i < j => ~StrLess(s[j], s[i])

FilesUnder(root) ==
  {p \in Files(Tree) : root = <<".">> \/ StartsWith(p, root \o <<"/">>)}

FallbackSummary ==
  /\ last.exit = 0
  /\ last.err = <<>>
  /\ IsSorted(ListedPaths)
  /\ Range(ListedPaths) = FilesUnder(RootOf(last))
  /\ ListedCount = Len(ListedPaths)
  /\ Len(ListedPaths) = Cardinality(FilesUnder(RootOf(last)))

\* C7 as stated: whenever the version-control command fails, publish prints
\* the sorted listing of every file under the root with its count and exits 0,
\* and it never changes the tree.
C7_NeverSurfacesFailure ==
  /\ Published => fs = Tree
  /\ VcFailed => FallbackSummary

\* C7: publish never changes the tree; when the version-control command fails
\* and the root is a directory it prints the sorted listing of every file
\* under the root with its count and exits 0; when the root cannot be listed
\* the walker's error is reported and the exit code is 1.
C7_FallbackListing ==
  /\ Published => fs = Tree
  /\ VcFailed => IF IsDir(Tree, RootOf(last)) THEN FallbackSummary
                 ELSE last.exit = 1 /\ last.out = <<>> /\ Len(last.err) = 1

C7_Witness ==
  /\ VcFailed
  /\ last.exit = 0
  /\ Len(ListedPaths) >= 3
  /\ RootOf(last) = <<"models">>

InitRan == last.cmd = "init:model"
Flag(name) == argValue(rest(last.argv), <<name>>, Undef)
Given(v) == IsString(v) /\ v.s # <<>>
VersionFlag == argValue(rest(last.argv), <<"--version">>, JStr(<<"0.1.0">>))

FlagsAccepted ==
  /\ Given(Flag("--modality")) /\ Flag("--modality").s \in {<<"text">>, <<"vision">>, <<"multimodal">>}
  /\ Given(Flag("--slug"))
  /\ Given(Flag("--id"))
  /\ SemVerTest(VersionFlag.s)

ModelDir ==
  join(join(join(RootOf(last), <<"models">>), Flag("--modality").s), Flag("--slug").s)

\* C9: init model checks all its flags before it writes.  With a flag missing
\* or invalid it exits 1 and leaves the tree as it was; with all flags valid it
\* writes model.json, versions/<version>.json and PERFORMANCE.md under
\* <root>/models/<modality>/<slug>/.
C9_ValidateBeforeWrite ==
  InitRan =>
    IF FlagsAccepted
    THEN /\ last.exit = 0
         /\ IsFile(fs, join(ModelDir, ModelJsonName))
         /\ IsFile(fs, join(join(ModelDir, <<"versions">>), VersionFlag.s \o <<".json">>))
         /\ IsFile(fs, join(ModelDir, <<"PERFORMANCE.md">>))
    ELSE last.exit = 1 /\ fs = Tree

C9_Witness ==
  /\ InitRan
  /\ last.argv = InitBadVersion
  /\ last.exit = 1
  /\ IsFile(fs, ModelJsonHere)

\* C10: init model on a root that holds no models tree, followed at once by
\* validate models with the same --root, succeeds with the success line.
C10_RoundTrip ==
  (/\ Validated
   /\ prev.cmd = "init:model" /\ prev.exit = 0
   /\ RootOf(prev) = RootOf(last)
   /\ edits = 0)
  => Passed

====
